---- MODULE Spec2Model ----
(***************************************************************************)
(* solveLRR (src/package/index.js): an evaluator of linear recurrence      *)
(* relations  f(n) = c_1(n) f(n-1) + .. + c_k(n) f(n-k) + g(n).            *)
(*                                                                         *)
(* solveLRR(coefficients, initial_terms, non_hom_term, memory_opt, add,    *)
(* multiply, zero) returns either an Error object (length mismatch) or a   *)
(* closure n => f(n).  The closure captures initial_terms_og, a copy of    *)
(* the caller's list, which is the stored history when memory_opt is       *)
(* false.  JavaScript arrays are reference values, so the model keeps a    *)
(* heap of arrays and the variables of the program hold references.        *)
(***************************************************************************)
EXTENDS Integers, Sequences, FiniteSets, TLC

\* ------------------------------------------------------------------ bounds

\* Largest number of coefficients / initial terms the caller passes.
MaxOrder == 2
\* Largest index the caller passes to the returned function.
MaxN == 3

\* ------------------------------------------------------------ JS values

\* A JS number holding an integer.  Every value the bounded runs produce is
\* far below 2^53, where the doubles of the default add and multiply are exact.
Num(v) == [t |-> "number", v |-> v]
undefined == [t |-> "undefined", v |-> 0]
NaN == [t |-> "NaN", v |-> 0]
\* Marks an index for which no call has returned yet (bookkeeping only).
unseen == [t |-> "unseen", v |-> 0]

\* Default ring operations (index.js:59-61).  a+b and a*b on numbers; an
\* undefined or NaN operand of the numeric operators gives NaN.
add(a, b) == IF a.t = "number" /\ b.t = "number" THEN Num(a.v + b.v) ELSE NaN
multiply(a, b) == IF a.t = "number" /\ b.t = "number" THEN Num(a.v * b.v) ELSE NaN
zero == Num(0)

\* An index function n => a*n + b, the shape of the coefficient functions
\* and non-homogeneous terms of test.js (_=>2, n=>2*n+1, n=>2*n-1, _=>0).
Fn(a, b) == [a |-> a, b |-> b]
Apply(fn, i) == Num(fn.a * i + fn.b)

\* A custom data type of the caller: the 2x2 integer matrix [[a, b], [0, d]],
\* an element of a ring whose multiplication does not commute.
Mat(a, b, d) == [t |-> "matrix", v |-> a, b |-> b, d |-> d]

\* The add, multiply and zero a caller passes for matrices, as test.js:174-176
\* passes those of big.js.  An operand that is not a matrix gives NaN here.
MatAdd(x, y) ==
  IF x.t = "matrix" /\ y.t = "matrix" THEN Mat(x.v + y.v, x.b + y.b, x.d + y.d) ELSE NaN
MatMultiply(x, y) ==
  IF x.t = "matrix" /\ y.t = "matrix"
  THEN Mat(x.v * y.v, x.v * y.b + x.b * y.d, x.d * y.d)
  ELSE NaN
MatZero == Mat(0, 0, 0)

\* The index function n => [[a*n + b, 1], [0, 1]] a caller of a matrix
\* recurrence passes, written with the same pair (a, b).
MatApply(fn, i) == Mat(fn.a * i + fn.b, 1, 1)

\* The add, multiply and zero parameters of evaluator e (index.js:59-61): the
\* defaults when e.ring is "number", the caller's when it is "matrix"; and a
\* call of one of its index functions.
addOf(e, a, b) == IF e.ring = "matrix" THEN MatAdd(a, b) ELSE add(a, b)
multiplyOf(e, a, b) == IF e.ring = "matrix" THEN MatMultiply(a, b) ELSE multiply(a, b)
zeroOf(e) == IF e.ring = "matrix" THEN MatZero ELSE zero
ApplyOf(e, fn, i) == IF e.ring = "matrix" THEN MatApply(fn, i) ELSE Apply(fn, i)

\* A negative index counted back from the end of the list.
AtFromEnd(list, idx) ==
  IF idx >= 0 /\ idx < Len(list) THEN list[idx + 1]
  ELSE IF idx < 0 /\ -idx <= Len(list) THEN list[Len(list) + idx + 1]
  ELSE undefined

\* list[idx] of a JS array: undefined outside 0 .. length-1.
At(list, idx) == IF idx >= 0 /\ idx < Len(list) THEN list[idx + 1] ELSE undefined

\* ------------------------------------------------------- input domains

\* The coefficient functions the caller chooses from: _ => 2 and n => n.
CoefFns == {Fn(0, 2), Fn(1, 0)}
\* The non-homogeneous terms: the default _ => 0 and n => 2*n - 1.
NonHomFns == {Fn(0, 0), Fn(2, -1)}
\* The non-homogeneous term of the two-evaluator runs: n => 2*n - 1.
NonHomFns2 == {Fn(2, -1)}
\* The values of the caller's initial terms.
TermVals == {Num(1), Num(2)}

RECURSIVE ListsOver(_, _)
ListsOver(S, len) ==
  IF len = 0 THEN {<<>>}
  ELSE LET shorter == ListsOver(S, len - 1)
       IN shorter \cup {Append(l, e) : l \in {s \in shorter : Len(s) = len - 1}, e \in S}

CoefLists == ListsOver(CoefFns, MaxOrder)
TermLists == ListsOver(TermVals, MaxOrder)
\* The initial terms of the matrix recurrences: [[1, 0], [0, 2]] and
\* [[2, 1], [0, 1]].
MatTermVals == {Mat(1, 0, 2), Mat(2, 1, 1)}
MatTermLists == ListsOver(MatTermVals, MaxOrder)

\* The indices below 0 a caller passes to the returned function.
NegativeIndices == {-2, -1}

Instances == {1, 2}

\* ------------------------------------------------------------------ state

VARIABLES
  heap,     \* reference -> array contents
  inst,     \* what solveLRR returned for each construction
  given,    \* the contents of initial_terms when each construction ran
  pc,       \* "idle" or "loop": position of the running call
  frame,    \* the local variables of the running (or last) call
  ops,      \* callbacks invoked by the running (or last) call
  outcome,  \* how the last call ended
  ret,      \* the value the last call returned, or raised to its caller
  memo,     \* per index: the value the first call of evaluator 1 for it returned
  solo,     \* per instance: the history it would hold were it the only one
  last,     \* the kind of the last step taken
  failedAt  \* the index at which a callback last raised, -1 when none has

vars == <<heap, inst, given, pc, frame, ops, outcome, ret, memo, solo, last, failedAt>>

\* References: the caller's list, each instance's initial_terms_og, and the
\* working list `it` of a memory_opt call.
Refs == {"initial_terms", "og1", "og2", "it"}
\* Every construction writing the same array.
OgRefShared(x) == "og1"
OgRef(x) == IF x = 1 THEN "og1" ELSE "og2"

NoInst ==
  [kind |-> "none", coefficients |-> <<>>, initial_terms_og |-> "none",
   non_hom_term |-> Fn(0, 0), memory_opt |-> FALSE, ring |-> "number",
   message |-> <<>>]

NoFrame ==
  [inst |-> 0, n |-> 0, it |-> "none", largest_calculated_index |-> 0,
   i |-> 0, j |-> 0, ith_rr_term |-> zero]

NoOps ==
  [zero |-> 0, add |-> 0, multiply |-> 0, coefficient |-> 0, non_hom_term |-> 0,
   raised |-> undefined]

\* ---------------------------------------------------------- construction

\* Spread as an alias: no new array is made.
SpreadAlias(h, src, fresh) == [ref |-> src, heap |-> h]

\* [...list]: a new array with the same elements (index.js:65 and :75).
Spread(h, src, fresh) == [ref |-> fresh, heap |-> [h EXCEPT ![fresh] = h[src]]]

\* solveLRR rejecting only a coefficients list shorter than initial_terms.
solveLRRShorterOnly(h, x, coefficients, non_hom_term, memory_opt, ring) ==
  LET c == Spread(h, "initial_terms", OgRef(x))
      initial_terms_og == c.heap[c.ref]
  IN IF Len(coefficients) < Len(initial_terms_og)
     THEN [value |-> [NoInst EXCEPT !.kind = "Error",
                                    !.message = <<coefficients, h["initial_terms"]>>],
           heap |-> h]
     ELSE [value |-> [kind |-> "function", coefficients |-> coefficients,
                      initial_terms_og |-> c.ref, non_hom_term |-> non_hom_term,
                      memory_opt |-> memory_opt, ring |-> ring, message |-> <<>>],
           heap |-> c.heap]

\* solveLRR keeping the caller's list itself instead of a copy of it.
solveLRRNoCopy(h, x, coefficients, non_hom_term, memory_opt, ring) ==
  IF Len(coefficients) # Len(h["initial_terms"])
  THEN [value |-> [NoInst EXCEPT !.kind = "Error",
                                 !.message = <<coefficients, h["initial_terms"]>>],
        heap |-> h]
  ELSE [value |-> [kind |-> "function", coefficients |-> coefficients,
                   initial_terms_og |-> "initial_terms", non_hom_term |-> non_hom_term,
                   memory_opt |-> memory_opt, ring |-> ring, message |-> <<>>],
        heap |-> h]

\* solveLRR(coefficients, initial_terms, non_hom_term, memory_opt, add,
\* multiply, zero), the last three given as the ring they belong to: what is
\* returned, and the heap afterwards (index.js:63-72).
solveLRR(h, x, coefficients, non_hom_term, memory_opt, ring) ==
  LET c == Spread(h, "initial_terms", OgRef(x))
      initial_terms_og == c.heap[c.ref]
  IN IF Len(coefficients) # Len(initial_terms_og)
     THEN [value |-> [NoInst EXCEPT !.kind = "Error",
                                    !.message = <<coefficients, h["initial_terms"]>>],
           heap |-> h]
     ELSE [value |-> [kind |-> "function", coefficients |-> coefficients,
                      initial_terms_og |-> c.ref, non_hom_term |-> non_hom_term,
                      memory_opt |-> memory_opt, ring |-> ring, message |-> <<>>],
           heap |-> c.heap]

\* ------------------------------------------------------------ evaluation

\* The working list always the stored list, also under memory_opt.
WorkingListShared(e, h) == [ref |-> e.initial_terms_og, heap |-> h]

\* it = memory_opt ? [...initial_terms_og] : initial_terms_og (index.js:75).
WorkingList(e, h) ==
  IF e.memory_opt THEN Spread(h, e.initial_terms_og, "it")
  ELSE [ref |-> e.initial_terms_og, heap |-> h]

\* The declarations with largest_calculated_index taken from the order of the
\* recurrence instead of the length of the working list.
EnterFromOrder(e, x, h, n) ==
  LET w == WorkingList(e, h)
  IN [frame |-> [inst |-> x, n |-> n, it |-> w.ref,
                 largest_calculated_index |-> Len(e.coefficients),
                 i |-> 0, j |-> 0, ith_rr_term |-> zeroOf(e)],
      heap |-> w.heap]

\* The declarations at the head of the returned function (index.js:74-80).
Enter(e, x, h, n) ==
  LET w == WorkingList(e, h)
  IN [frame |-> [inst |-> x, n |-> n, it |-> w.ref,
                 largest_calculated_index |-> Len(w.heap[w.ref]),
                 i |-> 0, j |-> 0, ith_rr_term |-> zeroOf(e)],
      heap |-> w.heap]

\* The index read for offset j counted from i in both memory modes.
ReadIndexFullHistory(e, f, j) == f.i - j

\* The index read for offset j counted from largest_calculated_index in both
\* memory modes.
ReadIndexWindow(e, f, j) == f.largest_calculated_index - j

\* The index read for offset j (index.js:92).
ReadIndex(e, f, j) == (IF e.memory_opt THEN f.largest_calculated_index ELSE f.i) - j

\* The coefficient loop applying each coefficient at the index i-j of the term
\* it multiplies instead of the index i being computed.
RECURSIVE CoefficientLoopAtTerm(_, _, _, _, _)
CoefficientLoopAtTerm(e, f, list, j, ith_rr_term) ==
  IF j > Len(e.coefficients) THEN ith_rr_term
  ELSE CoefficientLoopAtTerm(e, f, list, j + 1,
         addOf(e, ith_rr_term,
               multiplyOf(e, At(list, (IF e.memory_opt THEN f.largest_calculated_index
                                       ELSE f.i) - j),
                          ApplyOf(e, e.coefficients[j], f.i - j))))

\* The coefficient loop for j, j+1, .., coefficients.length (index.js:89-94).
RECURSIVE CoefficientLoop(_, _, _, _, _)
CoefficientLoop(e, f, list, j, ith_rr_term) ==
  IF j > Len(e.coefficients) THEN ith_rr_term
  ELSE CoefficientLoop(e, f, list, j + 1,
         addOf(e, ith_rr_term,
               multiplyOf(e, At(list, ReadIndex(e, f, j)),
                          ApplyOf(e, e.coefficients[j], f.i))))

\* push followed by shift in both memory modes.
PushShiftAlways(e, list, term) == Tail(Append(list, term))

\* it.push(term); if(memory_opt){ it.shift() } (index.js:100-103).
PushShift(e, list, term) ==
  LET pushed == Append(list, term)
  IN IF e.memory_opt THEN Tail(pushed) ELSE pushed

\* One pass of the outer loop, for index f.i (index.js:87-107).
LoopBody(e, f, h) ==
  LET sum == CoefficientLoop(e, f, h[f.it], 1, f.ith_rr_term)
      term == addOf(e, sum, ApplyOf(e, e.non_hom_term, f.i))
  IN [frame |-> [f EXCEPT !.i = f.i + 1, !.j = Len(e.coefficients) + 1,
                          !.ith_rr_term = zeroOf(e)],
      heap |-> [h EXCEPT ![f.it] = PushShift(e, h[f.it], term)]]

\* The final return reading it[n] in both memory modes.
ReturnValueFullHistory(e, f, h) == At(h[f.it], f.n)

\* return memory_opt ? it[largest_calculated_index-1] : it[n] (index.js:110).
ReturnValue(e, f, h) ==
  IF e.memory_opt THEN At(h[f.it], f.largest_calculated_index - 1)
  ELSE At(h[f.it], f.n)

\* The working list of a memory_opt call is unreachable once the call returns.
Release(f, h) == IF f.it = "it" THEN [h EXCEPT !["it"] = <<>>] ELSE h

\* The callbacks of an evaluator; each is the caller's code and may raise
\* (index.js:59-61, :45).
Callbacks == {"zero", "coefficient", "multiply", "add", "non_hom_term"}

\* What callback cb raises when called for offset j in the pass for index i.
Exception(cb, i, j) == [t |-> "exception", v |-> i, cb |-> cb, j |-> j]

\* The call replacing what a callback raised by an exception of its own.
UncaughtWrapped(exc) == [exc EXCEPT !.cb = "solveLRR"]

\* What the caller of the returned function receives when a callback raises:
\* no statement of the function catches (index.js:72-111).
Uncaught(exc) == exc

\* The heap when a callback raises in the pass for index f.i, with the sum
\* accumulated so far pushed to the working list.
AbortPartial(e, f, h, cb) ==
  IF cb = "zero" THEN LoopBody(e, f, h).heap
  ELSE [h EXCEPT ![f.it] =
          PushShift(e, h[f.it], CoefficientLoop(e, f, h[f.it], 1, f.ith_rr_term))]

\* The heap when callback cb raises in the pass for index f.i: zero() is called
\* after the push and the shift (index.js:106), every other callback before
\* them (index.js:90-100).
Abort(e, f, h, cb) == IF cb = "zero" THEN LoopBody(e, f, h).heap ELSE h

\* The callbacks invoked in a pass of the loop of an order-k evaluator up to
\* and including the call of cb that raises, for offset j (j = k + 1 after the
\* coefficient loop): the arguments of add are evaluated before add is
\* called, those of multiply before multiply (index.js:90-97).
OpsAtThrow(o, k, cb, j, exc) ==
  LET done == IF j <= k THEN j ELSE k
  IN [o EXCEPT !.coefficient = @ + done,
               !.multiply = @ + (IF cb = "coefficient" THEN j - 1 ELSE done),
               !.add = @ + (IF cb \in {"coefficient", "multiply"} THEN j - 1
                            ELSE IF cb = "non_hom_term" THEN k ELSE j),
               !.non_hom_term = @ + (IF j = k + 1 THEN 1 ELSE 0),
               !.zero = @ + (IF cb = "zero" THEN 1 ELSE 0),
               !.raised = exc]

\* The outer loop starting at index 0 instead of largest_calculated_index.
LoopStartAtZero(f) == [f EXCEPT !.i = 0]

\* The outer loop's initialisation i = largest_calculated_index (index.js:86).
LoopStart(f) == [f EXCEPT !.i = f.largest_calculated_index]

\* The outer loop from f.i up to n (index.js:86-107).
RECURSIVE RunLoop(_, _, _)
RunLoop(e, f, h) ==
  IF f.i > f.n THEN [frame |-> f, heap |-> h]
  ELSE LET b == LoopBody(e, f, h) IN RunLoop(e, b.frame, b.heap)

\* A whole call of the returned function: its value and the heap afterwards
\* (index.js:72-111).
Evaluate(e, x, h, n) ==
  LET en == Enter(e, x, h, n)
  IN IF n < en.frame.largest_calculated_index
     THEN [ret |-> At(en.heap[en.frame.it], n), heap |-> Release(en.frame, en.heap)]
     ELSE LET r == RunLoop(e, LoopStart(en.frame), en.heap)
          IN [ret |-> ReturnValue(e, r.frame, r.heap), heap |-> Release(r.frame, r.heap)]

\* The heap in which instance x is the only evaluator: its history is solo[x].
SoloHeap(x) ==
  [r \in Refs |-> IF r = inst[x].initial_terms_og THEN solo[x].list
                  ELSE IF r = "initial_terms" THEN heap[r] ELSE <<>>]

\* ---------------------------------------------------------------- actions

Init ==
  /\ heap \in {[r \in Refs |-> IF r = "initial_terms" THEN l ELSE <<>>] : l \in TermLists}
  /\ inst = [x \in Instances |-> NoInst]
  /\ given = [x \in Instances |-> <<>>]
  /\ pc = "idle"
  /\ frame = NoFrame
  /\ ops = NoOps
  /\ outcome = "none"
  /\ ret = undefined
  /\ memo = [n \in 0 .. MaxN |-> unseen]
  /\ solo = [x \in Instances |-> [list |-> <<>>, ret |-> undefined]]
  /\ last = "init"
  /\ failedAt = -1

\* The state before a construction of a matrix recurrence: the caller's list
\* holds matrices.
InitR ==
  /\ heap \in {[r \in Refs |-> IF r = "initial_terms" THEN l ELSE <<>>] : l \in MatTermLists}
  /\ inst = [x \in Instances |-> NoInst]
  /\ given = [x \in Instances |-> <<>>]
  /\ pc = "idle"
  /\ frame = NoFrame
  /\ ops = NoOps
  /\ outcome = "none"
  /\ ret = undefined
  /\ memo = [n \in 0 .. MaxN |-> unseen]
  /\ solo = [x \in Instances |-> [list |-> <<>>, ret |-> undefined]]
  /\ last = "init"
  /\ failedAt = -1

\* The caller builds evaluator x from its list (index.js:45-112).
Construct(x, coefficients, non_hom_term, memory_opt, ring) ==
  /\ pc = "idle"
  /\ inst[x].kind = "none"
  /\ LET r == solveLRR(heap, x, coefficients, non_hom_term, memory_opt, ring)
     IN /\ inst' = [inst EXCEPT ![x] = r.value]
        /\ heap' = r.heap
        /\ solo' = [solo EXCEPT ![x] = [list |-> heap["initial_terms"], ret |-> undefined]]
  /\ given' = [given EXCEPT ![x] = heap["initial_terms"]]
  /\ last' = "construct"
  /\ UNCHANGED <<failedAt, pc, frame, ops, outcome, ret, memo>>

\* The caller changes its own list between calls (index.js:49-51, :64).
CallerSet(idx, v) ==
  /\ pc = "idle"
  /\ idx \in 1 .. Len(heap["initial_terms"])
  /\ heap["initial_terms"][idx] # v
  /\ heap' = [heap EXCEPT !["initial_terms"][idx] = v]
  /\ last' = "caller"
  /\ UNCHANGED <<failedAt, inst, given, pc, frame, ops, outcome, ret, memo, solo>>

CallerPush(v) ==
  /\ pc = "idle"
  /\ Len(heap["initial_terms"]) < MaxOrder
  /\ heap' = [heap EXCEPT !["initial_terms"] = Append(@, v)]
  /\ last' = "caller"
  /\ UNCHANGED <<failedAt, inst, given, pc, frame, ops, outcome, ret, memo, solo>>

CallerPop ==
  /\ pc = "idle"
  /\ Len(heap["initial_terms"]) > 0
  /\ heap' = [heap EXCEPT !["initial_terms"] = SubSeq(@, 1, Len(@) - 1)]
  /\ last' = "caller"
  /\ UNCHANGED <<failedAt, inst, given, pc, frame, ops, outcome, ret, memo, solo>>

\* Calling what solveLRR returned when it is an Error object: not a function.
CallError(x) ==
  /\ pc = "idle"
  /\ inst[x].kind = "Error"
  /\ outcome' = "TypeError"
  /\ ret' = undefined
  /\ frame' = [NoFrame EXCEPT !.inst = x]
  /\ ops' = NoOps
  /\ last' = "call"
  /\ UNCHANGED <<failedAt, heap, inst, given, pc, memo, solo>>

\* The caller calls evaluator x with n: the declarations and the early return
\* (index.js:72-83), then the loop is entered (index.js:86).
CallCode(x, n) ==
  /\ pc = "idle"
  /\ inst[x].kind = "function"
  /\ LET en == Enter(inst[x], x, heap, n)
         alone == Evaluate(inst[x], x, SoloHeap(x), n)
     IN /\ solo' = [solo EXCEPT ![x] = [list |-> alone.heap[inst[x].initial_terms_og],
                                        ret |-> alone.ret]]
        /\ ops' = [NoOps EXCEPT !.zero = 1]
        /\ IF n < en.frame.largest_calculated_index
           THEN /\ ret' = At(en.heap[en.frame.it], n)
                /\ outcome' = "returned"
                /\ frame' = en.frame
                /\ heap' = Release(en.frame, en.heap)
                /\ pc' = "idle"
           ELSE /\ frame' = LoopStart(en.frame)
                /\ heap' = en.heap
                /\ pc' = "loop"
                /\ outcome' = "running"
                /\ ret' = ret
  /\ UNCHANGED <<failedAt, inst, given>>

\* One pass of the outer loop (index.js:86-107).
LoopStep ==
  /\ pc = "loop"
  /\ frame.i <= frame.n
  /\ LET e == inst[frame.inst]
         b == LoopBody(e, frame, heap)
     IN /\ frame' = b.frame
        /\ heap' = b.heap
        /\ ops' = [ops EXCEPT !.add = @ + Len(e.coefficients) + 1,
                              !.multiply = @ + Len(e.coefficients),
                              !.coefficient = @ + Len(e.coefficients),
                              !.non_hom_term = @ + 1,
                              !.zero = @ + 1]
  /\ last' = "loop"
  /\ UNCHANGED <<failedAt, inst, given, pc, outcome, ret, memo, solo>>

\* The loop is over: the final return (index.js:110).
ReturnCode ==
  /\ pc = "loop"
  /\ frame.i > frame.n
  /\ ret' = ReturnValue(inst[frame.inst], frame, heap)
  /\ heap' = Release(frame, heap)
  /\ outcome' = "returned"
  /\ pc' = "idle"
  /\ UNCHANGED <<failedAt, inst, given, frame, ops, solo>>

\* The zero() of the declarations raises (index.js:80): the call ends there.
ThrowAtEntry(x, n) ==
  /\ pc = "idle"
  /\ inst[x].kind = "function"
  /\ LET en == Enter(inst[x], x, heap, n)
         exc == Exception("zero", 0, 0)
     IN /\ frame' = en.frame
        /\ heap' = Release(en.frame, en.heap)
        /\ ops' = [NoOps EXCEPT !.zero = 1, !.raised = exc]
        /\ ret' = Uncaught(exc)
  /\ outcome' = "threw"
  /\ pc' = "idle"
  /\ last' = "throw"
  /\ failedAt' = 0
  /\ UNCHANGED <<inst, given, memo, solo>>

\* Callback cb raises in the pass of the loop for index frame.i, at offset j
\* (index.js:90-106): the call ends there.
Throw(cb, j) ==
  /\ pc = "loop"
  /\ frame.i <= frame.n
  /\ LET e == inst[frame.inst]
         k == Len(e.coefficients)
         exc == Exception(cb, frame.i, j)
     IN /\ j \in 1 .. k + 1
        /\ cb \in {"coefficient", "multiply"} => j <= k
        /\ cb \in {"non_hom_term", "zero"} => j = k + 1
        /\ heap' = Release(frame, Abort(e, frame, heap, cb))
        /\ ops' = OpsAtThrow(ops, k, cb, j, exc)
        /\ ret' = Uncaught(exc)
  /\ frame' = [frame EXCEPT !.j = j]
  /\ outcome' = "threw"
  /\ pc' = "idle"
  /\ last' = "throw"
  /\ failedAt' = frame.i
  /\ UNCHANGED <<inst, given, memo, solo>>

\* Bookkeeping of a step of a call: the kind of the step; memo is not kept.
Forget ==
  /\ memo' = memo
  /\ last' = IF outcome' = "returned" /\ pc' = "idle" THEN "return" ELSE "call"

\* Bookkeeping of a step of a call that also keeps memo: the first value
\* returned for each index, and whether the step returned for an index for
\* which a call had returned before.
Remember ==
  IF outcome' = "returned" /\ pc' = "idle"
  THEN /\ memo' = IF memo[frame'.n] = unseen THEN [memo EXCEPT ![frame'.n] = ret'] ELSE memo
       /\ last' = IF memo[frame'.n] = unseen THEN "return" ELSE "again"
  ELSE /\ memo' = memo
       /\ last' = "call"

Call(x, n) == CallCode(x, n) /\ Forget
Return == ReturnCode /\ Forget
CallM(x, n) == CallCode(x, n) /\ Remember
ReturnM == ReturnCode /\ Remember

\* One evaluator, every input, and a caller that changes its list at will.
Next ==
  \/ \E c \in CoefLists, g \in NonHomFns, m \in BOOLEAN : Construct(1, c, g, m, "number")
  \/ \E idx \in 1 .. MaxOrder, v \in TermVals : CallerSet(idx, v)
  \/ \E v \in TermVals : CallerPush(v)
  \/ CallerPop
  \/ CallError(1)
  \/ \E n \in 0 .. MaxN : Call(1, n)
  \/ LoopStep
  \/ Return

Spec == Init /\ [][Next]_vars

\* One evaluator, every input, with the record of the values returned.
NextM ==
  \/ \E c \in CoefLists, g \in NonHomFns, m \in BOOLEAN : Construct(1, c, g, m, "number")
  \/ CallError(1)
  \/ \E n \in 0 .. MaxN : CallM(1, n)
  \/ LoopStep
  \/ ReturnM

SpecM == Init /\ [][NextM]_vars

\* Two evaluators built from the same caller's list, calls in any interleaving.
Next2 ==
  \/ \E x \in Instances, c \in CoefLists, g \in NonHomFns2, m \in BOOLEAN :
       Construct(x, c, g, m, "number")
  \/ \E x \in Instances : CallError(x)
  \/ \E x \in Instances, n \in 0 .. MaxN : Call(x, n)
  \/ LoopStep
  \/ Return

Spec2 == Init /\ [][Next2]_vars

\* One evaluator and every input, where a call that has started runs on: the
\* returned function is synchronous, its loop runs to the return statement
\* (index.js:86-110).
NextL ==
  \/ \E c \in CoefLists, g \in NonHomFns, m \in BOOLEAN : Construct(1, c, g, m, "number")
  \/ CallError(1)
  \/ \E n \in 0 .. MaxN : Call(1, n)
  \/ LoopStep
  \/ Return

SpecL == Init /\ [][NextL]_vars /\ WF_vars(LoopStep) /\ WF_vars(Return)

\* One evaluator and every input, with callbacks that may raise at any call.
NextT ==
  \/ \E c \in CoefLists, g \in NonHomFns, m \in BOOLEAN : Construct(1, c, g, m, "number")
  \/ CallError(1)
  \/ \E n \in 0 .. MaxN : Call(1, n)
  \/ LoopStep
  \/ Return
  \/ \E n \in 0 .. MaxN : ThrowAtEntry(1, n)
  \/ \E cb \in Callbacks, j \in 1 .. MaxOrder + 1 : Throw(cb, j)

SpecT == Init /\ [][NextT]_vars

\* One evaluator of a matrix recurrence, built with the caller's add, multiply
\* and zero.
NextR ==
  \/ \E c \in CoefLists, g \in NonHomFns, m \in BOOLEAN : Construct(1, c, g, m, "matrix")
  \/ CallError(1)
  \/ \E n \in 0 .. MaxN : Call(1, n)
  \/ LoopStep
  \/ Return

SpecR == InitR /\ [][NextR]_vars

\* One evaluator and every input, called with negative indices as well.
NextN ==
  \/ \E c \in CoefLists, g \in NonHomFns, m \in BOOLEAN : Construct(1, c, g, m, "number")
  \/ CallError(1)
  \/ \E n \in NegativeIndices \cup (0 .. MaxN) : Call(1, n)
  \/ LoopStep
  \/ Return

SpecN == Init /\ [][NextN]_vars

\* ------------------------------------------------------------- properties

\* The last call has returned to the caller.
Returned == pc = "idle" /\ outcome = "returned"

\* The order k of evaluator x.
Order(x) == Len(inst[x].coefficients)

\* The stored list of evaluator x.
Stored(x) == heap[inst[x].initial_terms_og]

\* The term f(n) of the recurrence with coefficient functions c, initial terms
\* t and non-homogeneous term g, over the integers, by its definition.
RECURSIVE TrueTerm(_, _, _, _), TrueSum(_, _, _, _, _)
TrueTerm(c, t, g, n) ==
  IF n < Len(t) THEN t[n + 1].v ELSE TrueSum(c, t, g, n, 1)
TrueSum(c, t, g, n, j) ==
  IF j > Len(c) THEN g.a * n + g.b
  ELSE (c[j].a * n + c[j].b) * TrueTerm(c, t, g, n - j) + TrueSum(c, t, g, n, j + 1)

TrueTermOf(x, n) ==
  Num(TrueTerm(inst[x].coefficients, given[x], inst[x].non_hom_term, n))

\* Sum over j .. k of coefficients[j-1](n) * (value returned for n-j), plus
\* non_hom_term(n), over the integers.
RECURSIVE LawSum(_, _, _)
LawSum(x, n, j) ==
  IF j > Order(x) THEN Apply(inst[x].non_hom_term, n).v
  ELSE Apply(inst[x].coefficients[j], n).v * memo[n - j].v + LawSum(x, n, j + 1)

\* C1 -- Recurrence law: for an evaluator of order k >= 1 over the integers,
\* whenever calls for n >= k and for n-1, .., n-k have returned, the value
\* returned for n is the sum over j = 1..k of coefficients[j-1](n) times the
\* value returned for n-j, plus non_hom_term(n).
RecurrenceLaw ==
  \A n \in 0 .. MaxN :
    ( /\ inst[1].kind = "function"
      /\ Order(1) >= 1
      /\ n >= Order(1)
      /\ \A j \in 0 .. Order(1) : memo[n - j] # unseen )
    => memo[n] = Num(LawSum(1, n, 1))

\* C1 witness: a second-order evaluator whose first coefficient depends on the
\* index has returned f(3), f(2) and f(1).
RecurrenceLawWitness ==
  /\ inst[1].kind = "function"
  /\ Order(1) = 2
  /\ inst[1].coefficients[1] = Fn(1, 0)
  /\ inst[1].non_hom_term = Fn(2, -1)
  /\ memo[3] # unseen /\ memo[2] # unseen /\ memo[1] # unseen
  /\ memo[3].t = "number"

\* C2 -- Query-order independence: every call that returns, whatever calls came
\* before it and in either memory mode, returns the true term f(n).
QueryOrderIndependence ==
  Returned => ret = TrueTermOf(frame.inst, frame.n)

\* C2, for evaluators of order k >= 1 only: the same statement.
QueryOrderIndependenceOrderPositive ==
  (Returned /\ Order(frame.inst) >= 1) => ret = TrueTermOf(frame.inst, frame.n)

\* Evaluators x and y compute the same recurrence of order k >= 1, one with
\* memory_opt and one without.
Twins(x, y) ==
  /\ inst[x].kind = "function" /\ inst[y].kind = "function"
  /\ inst[x].coefficients = inst[y].coefficients
  /\ inst[x].non_hom_term = inst[y].non_hom_term
  /\ given[x] = given[y]
  /\ Order(x) >= 1
  /\ inst[x].memory_opt # inst[y].memory_opt

\* C3 -- Memoization irrelevance: when a call evaluate(n) of one evaluator
\* returns, the evaluator of the same recurrence (k >= 1) with the other
\* memory_opt returns the same value for n, whatever calls it served before.
MemoizationIrrelevance ==
  \A x, y \in Instances :
    (Returned /\ frame.inst = x /\ Twins(x, y))
    => Evaluate(inst[y], y, heap, frame.n).ret = ret

\* C3 witness: the memory_opt evaluator of a second-order recurrence returned
\* f(3) while its full-history twin has a longer or shorter history.
MemoizationIrrelevanceWitness ==
  /\ Returned /\ frame.inst = 1 /\ Twins(1, 2)
  /\ inst[1].memory_opt /\ Order(1) = 2 /\ frame.n = 3
  /\ Len(Stored(2)) = 3

\* C4 as stated -- Prefix correctness: a call with n < k returns
\* initial_terms[n] and applies no ring operation (zero, add, multiply).
PrefixNoRingOperation ==
  (Returned /\ frame.n < Order(frame.inst))
  => /\ ret = given[frame.inst][frame.n + 1]
     /\ ops.zero = 0 /\ ops.add = 0 /\ ops.multiply = 0

\* C4 amended -- a call with n < k returns initial_terms[n] exactly, at any
\* point of the evaluator's lifetime; it applies neither add nor multiply nor
\* any coefficient or non-homogeneous function, and calls zero() exactly once.
PrefixCorrectness ==
  (Returned /\ frame.n < Order(frame.inst))
  => /\ ret = given[frame.inst][frame.n + 1]
     /\ ops.add = 0 /\ ops.multiply = 0
     /\ ops.coefficient = 0 /\ ops.non_hom_term = 0
     /\ ops.zero = 1

\* C4 witness: a prefix index is returned by a full-history evaluator after
\* its history was extended and after the caller changed its own list.
PrefixCorrectnessWitness ==
  /\ Returned /\ frame.inst = 1 /\ frame.n < Order(1)
  /\ ~inst[1].memory_opt
  /\ Len(Stored(1)) > Order(1)
  /\ heap["initial_terms"] # given[1]
  /\ last = "return"

\* C5 -- Length invariant: a construction with lists of different lengths
\* yields an Error object, never a function; the Error cannot be called; the
\* stored copy of an evaluator begins with exactly the k terms passed.
LengthInvariant ==
  \A x \in Instances :
    /\ inst[x].kind = "function"
       => /\ Len(inst[x].coefficients) = Len(given[x])
          /\ Len(Stored(x)) >= Len(given[x])
          /\ SubSeq(Stored(x), 1, Len(given[x])) = given[x]
    /\ inst[x].kind = "Error"
       => /\ inst[x].message[2] = given[x]
          /\ (frame.inst = x => outcome = "TypeError")

\* C5 witness: a construction with two coefficients and one initial term gave
\* an Error, and calling it failed.
LengthInvariantWitness ==
  /\ inst[1].kind = "Error"
  /\ Len(inst[1].message[1]) = 2 /\ Len(inst[1].message[2]) = 1
  /\ frame.inst = 1 /\ outcome = "TypeError"

\* C6 -- Order at least one: no evaluator of order 0 is ever produced.
OrderAtLeastOne ==
  \A x \in Instances : inst[x].kind = "function" => Order(x) >= 1

\* C7 -- Determinism: every call evaluate(n) that returns gives the value the
\* first call for n gave, whatever calls happened in between, in both modes.
Determinism ==
  (Returned /\ memo[frame.n] # unseen) => ret = memo[frame.n]

\* C7 witness: a memory_opt evaluator returns for an index n >= k a second
\* time, after a call for a larger index.
DeterminismWitness ==
  /\ Returned /\ last = "again"
  /\ inst[1].memory_opt /\ Order(1) >= 1
  /\ frame.n = Order(1)
  /\ memo[3] # unseen /\ frame.n < 3

\* C8 -- Defensive copy: a change the caller makes to its list after the
\* construction changes the value of no later evaluate(n), in both modes.
DefensiveCopy ==
  [][ last' = "caller"
      => \A x \in Instances, n \in 0 .. MaxN :
           inst[x].kind = "function"
           => Evaluate(inst[x], x, heap', n).ret = Evaluate(inst[x], x, heap, n).ret ]_vars

\* C8 witness: a call returned a prefix term after the caller's list had come
\* to differ from what it was at construction.
DefensiveCopyWitness ==
  /\ Returned /\ last = "return" /\ frame.inst = 1
  /\ Order(1) = 2 /\ frame.n = 1
  /\ Len(heap["initial_terms"]) = 2
  /\ heap["initial_terms"][2] # given[1][2]

\* C9 -- The caller's list is never mutated: no step of a construction or of a
\* call changes the length or the elements of the caller's list.
CallerListUntouched ==
  [][ last' # "caller" => heap'["initial_terms"] = heap["initial_terms"] ]_vars

\* C9 witness: a full-history evaluator extended its history and the caller's
\* list is as it was when the evaluator was built.
CallerListUntouchedWitness ==
  /\ Returned /\ last = "return" /\ frame.inst = 1
  /\ ~inst[1].memory_opt /\ Order(1) >= 1
  /\ Len(Stored(1)) = MaxN + 1
  /\ heap["initial_terms"] = given[1]

\* C10 -- Instance independence: every call returns the value it returns when
\* its evaluator is the only one, and each evaluator's stored list is the one
\* it has when it is the only one.
InstanceIndependence ==
  /\ Returned => ret = solo[frame.inst].ret
  /\ \A x \in Instances :
       (inst[x].kind = "function" /\ (pc = "idle" \/ frame.inst # x))
       => Stored(x) = solo[x].list

\* C10 witness: two full-history evaluators with different coefficients, built
\* from the same list, both extended their histories, in interleaved calls.
InstanceIndependenceWitness ==
  /\ Returned /\ frame.inst = 1
  /\ inst[1].kind = "function" /\ inst[2].kind = "function"
  /\ ~inst[1].memory_opt /\ ~inst[2].memory_opt
  /\ given[1] = given[2] /\ Order(1) >= 1
  /\ inst[1].coefficients # inst[2].coefficients
  /\ Len(Stored(1)) = MaxN + 1 /\ Len(Stored(2)) = MaxN

\* The heap of a freshly built evaluator x: its stored list holds the initial
\* terms it was given and no call has been made.
PristineHeap(x) ==
  [r \in Refs |-> IF r = inst[x].initial_terms_og THEN given[x] ELSE <<>>]

\* Some call for an index more than k above n returned before the last call,
\* which was for n.
CalledFarAbove(n) ==
  \E m \in 0 .. MaxN : m > n + Order(1) /\ memo[m] # unseen

\* C11 as stated -- Stale window: with memory_opt = true, after evaluate(m) a
\* later evaluate(n) with n more than k behind m returns a stale value, one
\* that is not the true term f(n).
StaleWindow ==
  (Returned /\ inst[1].memory_opt /\ CalledFarAbove(frame.n))
  => ret # TrueTermOf(1, frame.n)

\* C11 amended -- with memory_opt = true nothing is retained between calls:
\* after evaluate(m), a later evaluate(n) with n more than k behind m returns
\* what the first call evaluate(n) of a freshly built evaluator returns, which
\* for k >= 1 is the true term f(n).
NoStaleWindow ==
  (Returned /\ inst[1].memory_opt /\ CalledFarAbove(frame.n))
  => /\ ret = Evaluate(inst[1], 1, PristineHeap(1), frame.n).ret
     /\ Order(1) >= 1 => ret = TrueTermOf(1, frame.n)
     /\ Stored(1) = given[1]

\* C11 witness: a first-order memory_opt evaluator returned f(1) after it had
\* returned f(3).
NoStaleWindowWitness ==
  /\ Returned /\ inst[1].memory_opt /\ Order(1) = 1
  /\ frame.n = 1 /\ memo[3] # unseen
  /\ inst[1].coefficients[1] = Fn(1, 0)

\* The number of terms a full-history call for n computes when the stored
\* list holds len entries: the indices len .. n.
Missing(len, n) == IF n >= len THEN n - len + 1 ELSE 0

\* The callbacks the last call invoked are those of computing count terms.
ComputedTerms(count) ==
  /\ ops.non_hom_term = count
  /\ ops.add = count * (Order(frame.inst) + 1)
  /\ ops.multiply = count * Order(frame.inst)
  /\ ops.coefficient = count * Order(frame.inst)

\* C14 -- No recomputation in full-history mode: with memory_opt = false a call
\* starts from the stored list as it is (the high-water mark is its last
\* index); a pass of the loop computes the first index not yet stored and
\* stores it, so no index is computed twice; a call with n not above the mark
\* invokes no add, multiply, coefficient or non-homogeneous callback and a call
\* above it computes exactly the indices high_water_mark+1 .. n.
NoRecomputationStep ==
  /\ (pc = "idle" /\ last' \in {"call", "return"}
      /\ inst[frame'.inst].kind = "function" /\ ~inst[frame'.inst].memory_opt)
     => frame'.largest_calculated_index = Len(Stored(frame'.inst))
  /\ (last' = "loop" /\ ~inst[frame.inst].memory_opt)
     => /\ frame.i = Len(Stored(frame.inst))
        /\ Stored(frame.inst)' = Append(Stored(frame.inst), Stored(frame.inst)'[frame.i + 1])
  /\ (Returned /\ ~inst[frame.inst].memory_opt)'
     => ComputedTerms(Missing(frame.largest_calculated_index, frame.n))'

NoRecomputation == [][NoRecomputationStep]_vars

\* C14 witness: a second-order full-history evaluator that had stored f(2)
\* returned from a call for n = 3, having computed one term.
NoRecomputationWitness ==
  /\ Returned /\ ~inst[1].memory_opt /\ Order(1) = 2
  /\ frame.n = 3 /\ frame.largest_calculated_index = 3
  /\ ops.non_hom_term = 1 /\ ops.multiply = 2

\* The largest index below n for which a call has returned, -1 when none.
LargestSeenBelow(n) ==
  IF \E m \in 0 .. n - 1 : memo[m] # unseen
  THEN CHOOSE m \in 0 .. n - 1 :
         memo[m] # unseen /\ \A q \in m + 1 .. n - 1 : memo[q] = unseen
  ELSE -1

\* The last call returned for n, the first call to do so, no call has returned
\* for a larger index, and the call before it with the largest index was for
\* some m with k <= m < n.
ExtendsEarlierCall ==
  /\ Returned /\ last = "return"
  /\ \A q \in frame.n + 1 .. MaxN : memo[q] = unseen
  /\ LargestSeenBelow(frame.n) >= Order(1)

\* C15 as stated -- Incremental extension in constant-space mode: with
\* memory_opt = true a call evaluate(n) that follows a call evaluate(m) with
\* k <= m < n computes only the missing terms m+1 .. n, exactly n - m terms,
\* and does not restart from the initial terms.
IncrementalExtension ==
  (ExtendsEarlierCall /\ inst[1].memory_opt)
  => ComputedTerms(frame.n - LargestSeenBelow(frame.n))

\* C15 amended -- with memory_opt = true a call evaluate(n) with n >= k starts
\* from the initial terms whatever calls preceded it and computes the terms
\* k .. n, exactly n - k + 1 of them; after evaluate(m) with k <= m < n that is
\* m - k + 1 terms more than the n - m terms full-history mode computes.
RestartFromInitialTerms ==
  /\ (Returned /\ inst[1].memory_opt /\ frame.n >= Order(1))
     => /\ frame.largest_calculated_index = Order(1)
        /\ ComputedTerms(frame.n - Order(1) + 1)
        /\ Stored(1) = given[1]
  /\ (ExtendsEarlierCall /\ ~inst[1].memory_opt)
     => ComputedTerms(frame.n - LargestSeenBelow(frame.n))

\* C15 witness: a first-order memory_opt evaluator returned f(3) after it had
\* returned f(2), and computed three terms for it.
RestartFromInitialTermsWitness ==
  /\ ExtendsEarlierCall /\ inst[1].memory_opt /\ Order(1) = 1
  /\ frame.n = 3 /\ LargestSeenBelow(3) = 2
  /\ ops.non_hom_term = 3

\* The largest index for which a call has returned, -1 when none.
LargestSeen == LargestSeenBelow(MaxN + 1)

\* C17 -- Full-history invariant: with memory_opt = false, after any sequence of
\* completed calls the stored list has exactly max(k, 1 + largest index ever
\* queried) entries, its entry i is the true term f(i), and the entries
\* 0 .. k-1 are still the initial terms.
FullHistoryInvariant ==
  (pc = "idle" /\ inst[1].kind = "function" /\ ~inst[1].memory_opt)
  => /\ Len(Stored(1)) = (IF LargestSeen + 1 > Order(1) THEN LargestSeen + 1 ELSE Order(1))
     /\ \A i \in 0 .. Len(Stored(1)) - 1 : Stored(1)[i + 1] = TrueTermOf(1, i)
     /\ SubSeq(Stored(1), 1, Order(1)) = given[1]

\* C17 witness: a second-order full-history evaluator holds the four terms
\* f(0) .. f(3) after calls for n = 1 and then n = 3.
FullHistoryInvariantWitness ==
  /\ Returned /\ ~inst[1].memory_opt /\ Order(1) = 2
  /\ memo[1] # unseen /\ memo[2] = unseen /\ LargestSeen = 3
  /\ Len(Stored(1)) = 4
  /\ inst[1].coefficients = <<Fn(1, 0), Fn(0, 2)>>

\* The high-water mark of evaluator x: the largest index whose term is stored.
HighWaterMark(x) == Len(Stored(x)) - 1

\* C18 as stated -- High-water mark monotonicity, the part that fails: a call
\* with n above the high-water mark raises it to exactly n (the other parts,
\* that the mark never decreases, that the stored history never shrinks and
\* that a call with n not above the mark leaves it unchanged, hold and are
\* part of HighWaterMarkMonotone).
HighWaterMarkRaised ==
  (Returned /\ frame.n >= frame.largest_calculated_index)
  => HighWaterMark(frame.inst) = frame.n

\* C18 amended -- across any sequence of calls on one instance the high-water
\* mark never decreases and the stored history never shrinks or changes; a
\* call with n not above the mark leaves it unchanged; a call with n above it
\* raises it to exactly n when memory_opt = false and leaves it at k - 1 when
\* memory_opt = true.
HighWaterMarkStep ==
  inst[1].kind = "function"
  => /\ HighWaterMark(1)' >= HighWaterMark(1)
     /\ SubSeq(Stored(1)', 1, Len(Stored(1))) = Stored(1)
     /\ (pc = "idle" /\ last' \in {"call", "return"})
        => frame'.largest_calculated_index = HighWaterMark(1) + 1
     /\ (Returned /\ last = "return")'
        => HighWaterMark(1)' =
             (IF frame'.n < frame'.largest_calculated_index
              THEN frame'.largest_calculated_index - 1
              ELSE IF inst[1].memory_opt THEN Order(1) - 1 ELSE frame'.n)

HighWaterMarkMonotone == [][HighWaterMarkStep]_vars

\* C18 witness: a first-order memory_opt evaluator returned from a call for
\* n = 3 and its stored list still holds the one initial term.
HighWaterMarkMonotoneWitness ==
  /\ Returned /\ last = "return" /\ inst[1].memory_opt /\ Order(1) = 1
  /\ frame.n = 3 /\ HighWaterMark(1) = 0

\* C19 -- Sliding-window invariant: with memory_opt = true and k >= 1, while a
\* call runs its working list holds exactly k entries, after the pass for
\* index i the true terms f(i-k+1) .. f(i) in order (so with the pushed term
\* never more than k + 1); the term read for offset j when index i is computed
\* is f(i-j); and the value returned is the last entry, f(n).
SlidingWindowInvariant ==
  (pc = "loop" /\ inst[frame.inst].memory_opt /\ Order(frame.inst) >= 1)
  => LET x == frame.inst
         k == Order(x)
         it == heap[frame.it]
     IN /\ frame.it = "it"
        /\ Len(it) = k
        /\ \A j \in 1 .. k : it[k - j + 1] = TrueTermOf(x, frame.i - j)
        /\ frame.i <= frame.n
           => \A j \in 1 .. k :
                At(it, ReadIndex(inst[x], frame, j)) = TrueTermOf(x, frame.i - j)
        /\ frame.i > frame.n
           => /\ ReturnValue(inst[x], frame, heap) = it[k]
              /\ it[k] = TrueTermOf(x, frame.n)

\* C19 witness: a second-order memory_opt evaluator has completed the pass for
\* index 3 and its window holds f(2), f(3).
SlidingWindowInvariantWitness ==
  /\ pc = "loop" /\ inst[1].memory_opt /\ Order(1) = 2
  /\ frame.i = 4 /\ frame.n = 3
  /\ heap["it"] = <<TrueTermOf(1, 2), TrueTermOf(1, 3)>>
  /\ inst[1].coefficients = <<Fn(1, 0), Fn(0, 2)>>

\* C13 -- Termination: for n >= 0 and k >= 1, with callbacks that terminate, a
\* call runs to completion after finitely many passes of the loop (i only
\* moves from k towards n + 1) and returns a ring element, never an error
\* value or undefined, in both memory modes.
Termination ==
  /\ [](pc = "loop" => (frame.i <= frame.n + 1 /\ ops.non_hom_term <= frame.n + 1))
  /\ []((Returned /\ Order(frame.inst) >= 1) => ret.t = "number")
  /\ \A n \in 0 .. MaxN :
       (pc = "loop" /\ frame.n = n /\ Order(frame.inst) >= 1)
       ~> (Returned /\ frame.n = n /\ ret.t = "number")

\* C13 witness: a second-order evaluator returned a number from a call for
\* n = 3 that took two passes of the loop.
TerminationWitness ==
  /\ Returned /\ Order(1) = 2 /\ frame.n = 3 /\ ops.non_hom_term = 2
  /\ ret.t = "number"

\* C12 -- Exception propagation: if a callback (add, multiply, zero, a
\* coefficient function or the non-homogeneous term function) raises during a
\* call, the call ends with exactly what the callback raised: it is not caught,
\* replaced or wrapped, and no value is returned.
ExceptionPropagation ==
  /\ (pc = "idle" /\ ops.raised # undefined)
     => (outcome = "threw" /\ ret = ops.raised /\ last = "throw")
  /\ outcome = "threw" => (pc = "idle" /\ ops.raised.t = "exception")

\* C12 witness: the multiply callback raised at offset 2 of the pass for index
\* 3 and the call ended with that exception.
ExceptionPropagationWitness ==
  /\ outcome = "threw" /\ pc = "idle"
  /\ ops.raised = Exception("multiply", 3, 2)
  /\ ret = Exception("multiply", 3, 2)
  /\ ops.multiply = 2 /\ ops.add = 1

\* C20 -- Consistency after a failed call: with memory_opt = false, when a
\* callback raises while the term for index i is computed the stored history
\* is the correct prefix f(0) .. f(i-1) with no partial term for i, and a later
\* call evaluate(n) returns the true term f(n).
ConsistencyAfterFailedCall ==
  (pc = "idle" /\ inst[1].kind = "function" /\ ~inst[1].memory_opt)
  => /\ \A idx \in 0 .. Len(Stored(1)) - 1 : Stored(1)[idx + 1] = TrueTermOf(1, idx)
     /\ (outcome = "threw" /\ ops.raised.cb # "zero")
        => (Len(Stored(1)) = frame.i /\ failedAt = frame.i)
     /\ (Returned /\ failedAt >= 0) => ret = TrueTermOf(1, frame.n)

\* C20 witness: after a callback raised in the pass for index 3, a later call
\* of the second-order full-history evaluator for n = 3 computed the term and
\* returned.
ConsistencyAfterFailedCallWitness ==
  /\ Returned /\ ~inst[1].memory_opt /\ Order(1) = 2
  /\ failedAt = 3 /\ frame.n = 3 /\ ops.non_hom_term >= 1
  /\ inst[1].coefficients = <<Fn(1, 0), Fn(0, 2)>>

\* The term of index n of the matrix recurrence with coefficient functions c,
\* initial terms t and non-homogeneous term g, accumulated from zero by adding
\* the products for j = 1 .. k in order and then g(n), where each product has
\* the operand named by left ("coefficient" or "term") on the left.
RECURSIVE AccumulatedTerm(_, _, _, _, _), Accumulate(_, _, _, _, _, _, _)
AccumulatedTerm(left, c, t, g, n) ==
  IF n < Len(t) THEN t[n + 1] ELSE Accumulate(left, c, t, g, n, 1, MatZero)
Accumulate(left, c, t, g, n, j, acc) ==
  IF j > Len(c) THEN MatAdd(acc, MatApply(g, n))
  ELSE LET coefficient == MatApply(c[j], n)
           term == AccumulatedTerm(left, c, t, g, n - j)
           product == IF left = "coefficient" THEN MatMultiply(coefficient, term)
                      ELSE MatMultiply(term, coefficient)
       IN Accumulate(left, c, t, g, n, j + 1, MatAdd(acc, product))

\* C16 -- Accumulation order and operands: each computed term is accumulated
\* from a fresh zero() by add(acc, product_j) for j = 1 .. k in that order, with
\* product_j = multiply(coefficient_j(i), term(i-j)), the coefficient value as
\* the left operand and the earlier term as the right one, and then
\* add(acc, non_hom_term(i)).
AccumulationOrder ==
  (Returned /\ inst[1].ring = "matrix" /\ Order(1) >= 1 /\ frame.n >= Order(1))
  => ret = AccumulatedTerm("coefficient", inst[1].coefficients, given[1],
                           inst[1].non_hom_term, frame.n)

\* What the evaluator returns instead: the same accumulation with the earlier
\* term as the left operand of multiply and the coefficient value as the right.
AccumulationTermLeft ==
  (Returned /\ inst[1].ring = "matrix" /\ Order(1) >= 1 /\ frame.n >= Order(1))
  => ret = AccumulatedTerm("term", inst[1].coefficients, given[1],
                           inst[1].non_hom_term, frame.n)

\* C21 -- Constant-space calls keep no state: with memory_opt = true every call
\* works on a private copy of the initial terms (a list that is not the stored
\* one and starts as the k initial terms), the stored terms stay the k initial
\* terms at every step, and what a call returns is what the first call of a
\* freshly built evaluator returns for the same n, whatever calls preceded it.
ConstantSpaceKeepsNoStateStep ==
  (inst[1].kind = "function" /\ inst[1].memory_opt)
  => /\ Stored(1)' = given[1] /\ Stored(1) = given[1]
     /\ (pc = "idle" /\ pc' = "loop")
        => (frame'.it # inst[1].initial_terms_og /\ heap'[frame'.it] = given[1])
     /\ pc' = "loop" => frame'.it # inst[1].initial_terms_og
     /\ pc' = "idle" => heap'["it"] = <<>>
     /\ Returned' => ret' = Evaluate(inst[1], 1, PristineHeap(1), frame'.n).ret

ConstantSpaceKeepsNoState == [][ConstantSpaceKeepsNoStateStep]_vars

\* C21 witness: a second-order memory_opt evaluator returned f(3) for the
\* second time, after a call for n = 2 as well, and its stored list is still
\* the two initial terms.
ConstantSpaceKeepsNoStateWitness ==
  /\ Returned /\ last = "again" /\ inst[1].memory_opt /\ Order(1) = 2
  /\ frame.n = 3 /\ memo[2] # unseen /\ ret = memo[3]
  /\ Stored(1) = given[1] /\ ops.non_hom_term = 2

\* C22 -- Negative index: a call of the returned function with n < 0 raises no
\* error, invokes no add, multiply, coefficient or non-homogeneous callback,
\* returns undefined and leaves the stored history and the high-water mark
\* unchanged; calls with n >= 0 made after it return the true term (for
\* k >= 1, and for k = 0 with memory_opt = false).
NegativeIndexStep ==
  /\ (pc = "idle" /\ last' \in {"call", "return"} /\ inst[1].kind = "function"
      /\ frame'.n < 0)
     => /\ Returned' /\ ret' = undefined
        /\ ops'.add = 0 /\ ops'.multiply = 0
        /\ ops'.coefficient = 0 /\ ops'.non_hom_term = 0
        /\ ops'.raised = undefined
        /\ Stored(1)' = Stored(1)
        /\ HighWaterMark(1)' = HighWaterMark(1)
        /\ heap'["initial_terms"] = heap["initial_terms"]
  /\ (Returned' /\ frame'.n >= 0 /\ (Order(1) >= 1 \/ ~inst[1].memory_opt))
     => ret' = TrueTermOf(1, frame'.n)

NegativeIndex == [][NegativeIndexStep]_vars

\* C22 witness: a second-order full-history evaluator that holds f(0) .. f(2)
\* was called with n = -1 and returned undefined.
NegativeIndexWitness ==
  /\ Returned /\ last = "return" /\ ~inst[1].memory_opt /\ Order(1) = 2
  /\ frame.n = -1 /\ ret = undefined
  /\ Len(Stored(1)) = 3 /\ ops.add = 0 /\ ops.zero = 1

====
